---- MODULE Spec2Model ----
(***************************************************************************)
(* Model of the download package of ytarchive-raw-go: DownloadTask         *)
(* (Start, Wait, run), the worker loop downloadTask, one attempt           *)
(* downloadSegment with doRequest, and the collaborators of the package    *)
(* whose source is not in the tree (segmentStatus, its queues, the merge   *)
(* task, the progress bar), which are modelled from the design document.   *)
(***************************************************************************)
EXTENDS Integers, Sequences, FiniteSets, TLC

\* ---------------------------------------------------------------- bounds
MaxThreads == 2
MaxSegments == 2
MaxStarts == 2

\* ------------------------------------------------------ program constants
FailThreshold == 20
RetryThreshold == 3

QueueAuto == 0
QueueSequential == 1
QueueOutOfOrder == 2

NoSeg == -1

Workers == 0 .. (MaxThreads - 1)
Segments == 0 .. (MaxSegments - 1)
QueueModes == {QueueAuto, QueueSequential, QueueOutOfOrder}

VARIABLES
    Client,      \* DownloadTask.Client: "nil" or "custom"
    MergeFile,   \* DownloadTask.MergeFile
    QueueMode,   \* DownloadTask.QueueMode
    SegmentDir,  \* DownloadTask.SegmentDir
    Threads,     \* DownloadTask.Threads
    Url,         \* DownloadTask.Url
    wg,          \* DownloadTask.wg: the wait group's counter
    result,      \* DownloadTask.result
    started,     \* DownloadTask.started
    halt,        \* "" while the process lives; the log.Fatal message or "panic"
    runPc,       \* position of the run goroutine
    status,      \* the segmentStatus shared by workers and merge task
    qpos,        \* per worker: the cursor of the queue made by createQueue
    wpc,         \* per worker: position in downloadTask
    seg,         \* per worker: local seg
    failCount,   \* per worker: local failCount
    files,       \* per segment: state of its scratch file
    merge,       \* the merge task
    doneCalls,   \* per segment: calls of the progress bar's done
    origin,      \* what stream discovery answers to newSegStatus
    callers,     \* per concurrent caller of Start: its position in Start
    hist         \* observations for the properties (no effect on the program)

task == <<Client, MergeFile, QueueMode, SegmentDir, Threads, Url, wg, result, started>>
config == <<Client, MergeFile, QueueMode, SegmentDir, Url>>
sched == <<status, qpos>>
workers == <<wpc, seg, failCount>>
vars == <<Client, MergeFile, QueueMode, SegmentDir, Threads, Url, wg, result,
          started, halt, runPc, status, qpos, wpc, seg, failCount, files,
          merge, doneCalls, origin, callers, hist>>

Alive == halt = ""

\* DownloadResult{}: the zero value
ZeroResult == [Error |-> "", LostSegments |-> << >>, TotalSegments |-> 0]

\* the task's exported fields, as one record (for comparisons)
Fields == [Client |-> Client, MergeFile |-> MergeFile, QueueMode |-> QueueMode,
           SegmentDir |-> SegmentDir, Threads |-> Threads, Url |-> Url]

\* the goroutines that call Start on the one task without synchronisation
Callers == 0 .. (MaxStarts - 1)

\* What newSegStatus can return: an error, or a status whose total is known
\* (final) or still growing (a live stream).
InitResults ==
    [err : {TRUE}, known : {FALSE}, end : {0}]
        \cup [err : {FALSE}, known : BOOLEAN, end : 0 .. MaxSegments]

\* the observation before any attempt on the segment held
NoAttempt ==
    [kind |-> "none", n |-> 0, probes |-> 0, fc |-> 0,
     in |-> [net |-> << >>, probe |-> << >>, create |-> FALSE]]

\* A task as the caller built it, before Start; the caller makes at most
\* calls calls of Start; with trace the attempts of one worker are observed.
InitWith(calls, trace) ==
    /\ Client \in {"nil", "custom"}
    /\ MergeFile \in {"", "out"}
    /\ QueueMode \in QueueModes
    /\ SegmentDir \in {"", "dir"}
    /\ Threads \in 0 .. MaxThreads
    /\ Url \in {"", "url"}
    /\ wg = 0
    /\ result = ZeroResult
    /\ started = FALSE
    /\ halt = ""
    /\ runPc = "none"
    /\ status = [end |-> 0, final |-> FALSE, mode |-> QueueSequential, cursor |-> 0,
                 outcomes |-> [i \in Segments |-> "none"]]
    /\ qpos = [w \in Workers |-> 0]
    /\ wpc = [w \in Workers |-> "idle"]
    /\ seg = [w \in Workers |-> NoSeg]
    /\ failCount = [w \in Workers |-> 0]
    /\ files = [i \in Segments |-> "none"]
    /\ merge = [state |-> "idle", frontier |-> 0, output |-> << >>, notMerged |-> << >>]
    /\ doneCalls = [i \in Segments |-> 0]
    /\ origin \in InitResults
    /\ callers = [c \in Callers |-> "ready"]
    /\ hist = [cfg0 |-> Fields, calls |-> calls, starts |-> 0, noop |-> 0, runs |-> 0,
               waited |-> FALSE, waitResult |-> ZeroResult,
               tries |-> [w \in Workers |-> 0],
               handed |-> [i \in Segments |-> 0],
               recorded |-> [i \in Segments |-> 0],
               gaveUpAfter |-> [i \in Segments |-> 0],
               mergeIOError |-> FALSE,
               trace |-> trace, last |-> NoAttempt]

InitTask(calls) == InitWith(calls, FALSE)

\* the caller calls Start once
Init == InitTask(1)

\* the caller calls Start up to MaxStarts times
InitRestart == InitTask(MaxStarts)

\* ------------------------------------------------------------ DownloadTask
\* (mutant) the check of MergeFile is missing
ConfigError_NoMergeFile ==
    IF Url = "" THEN "Empty URL"
    ELSE IF SegmentDir = "" THEN "Empty SegmentDir"
    ELSE ""

\* the three checks of Start, in order: the message given to log.Fatal, or
\* "" when the configuration passes
ConfigError ==
    IF Url = "" THEN "Empty URL"
    ELSE IF MergeFile = "" THEN "Empty MergeFile"
    ELSE IF SegmentDir = "" THEN "Empty SegmentDir"
    ELSE ""

\* (mutant) Start does not look at started
AlreadyStarted_Never == FALSE

\* if d.started { return }
AlreadyStarted == started

\* Start: the guard on started, the clamp of Threads, the three log.Fatal
\* checks (log.Fatal ends the process with os.Exit), then wg.Add(1),
\* started = true and go d.run().
Start ==
    /\ Alive
    /\ UNCHANGED <<origin, callers>>
    /\ hist.starts < hist.calls
    /\ IF AlreadyStarted
       THEN /\ hist' = [hist EXCEPT !.starts = @ + 1, !.noop = @ + 1]
            /\ UNCHANGED <<task, halt, runPc>>
       ELSE /\ Threads' = IF Threads < 1 THEN 1 ELSE Threads
            /\ IF ConfigError # ""
               THEN /\ halt' = ConfigError
                    /\ hist' = [hist EXCEPT !.starts = @ + 1]
                    /\ UNCHANGED <<wg, started, runPc>>
               ELSE /\ wg' = wg + 1
                    /\ started' = TRUE
                    /\ runPc' = "init"
                    /\ hist' = [hist EXCEPT !.starts = @ + 1, !.runs = @ + 1]
                    /\ UNCHANGED halt
            /\ UNCHANGED <<config, result>>
    /\ UNCHANGED <<sched, workers, files, merge, doneCalls>>

\* Start called from several goroutines at once: the statements of Start
\* interleave. The read of d.started is not synchronised with the write of
\* another caller, so it yields the value written or the one before it.
StartedReads(c) ==
    {started} \cup {FALSE : c2 \in {x \in Callers : x # c /\ callers[x] # "ready"}}

\* if d.started { return }
StartEnter(c) ==
    /\ Alive
    /\ callers[c] = "ready"
    /\ \E seen \in StartedReads(c) :
         callers' = [callers EXCEPT ![c] = IF seen THEN "returned" ELSE "validate"]
    /\ hist' = [hist EXCEPT !.starts = @ + 1]
    /\ UNCHANGED <<task, halt, runPc, sched, workers, files, merge, doneCalls,
                   origin>>

\* the clamp of Threads and the three log.Fatal checks
StartValidate(c) ==
    /\ Alive
    /\ callers[c] = "validate"
    /\ Threads' = IF Threads < 1 THEN 1 ELSE Threads
    /\ IF ConfigError # ""
       THEN halt' = ConfigError /\ UNCHANGED callers
       ELSE callers' = [callers EXCEPT ![c] = "add"] /\ UNCHANGED halt
    /\ UNCHANGED <<config, wg, result, started, runPc, sched, workers, files,
                   merge, doneCalls, origin, hist>>

\* d.wg.Add(1)
StartAdd(c) ==
    /\ Alive
    /\ callers[c] = "add"
    /\ wg' = wg + 1
    /\ callers' = [callers EXCEPT ![c] = "set"]
    /\ UNCHANGED <<config, Threads, result, started, halt, runPc, sched, workers,
                   files, merge, doneCalls, origin, hist>>

\* d.started = true
StartSet(c) ==
    /\ Alive
    /\ callers[c] = "set"
    /\ started' = TRUE
    /\ callers' = [callers EXCEPT ![c] = "go"]
    /\ UNCHANGED <<config, Threads, wg, result, halt, runPc, sched, workers,
                   files, merge, doneCalls, origin, hist>>

\* go d.run(). Two runs on one task share every field of it; the model
\* counts the second run and follows the program no further.
StartGo(c) ==
    /\ Alive
    /\ callers[c] = "go"
    /\ callers' = [callers EXCEPT ![c] = "returned"]
    /\ hist' = [hist EXCEPT !.runs = @ + 1]
    /\ IF runPc = "none"
       THEN runPc' = "init" /\ UNCHANGED halt
       ELSE halt' = "second run" /\ UNCHANGED runPc
    /\ UNCHANGED <<task, sched, workers, files, merge, doneCalls, origin>>

StartStep(c) ==
    \/ StartEnter(c) \/ StartValidate(c) \/ StartAdd(c) \/ StartSet(c)
    \/ StartGo(c)

\* Wait: d.wg.Wait() returns once the counter is zero; the caller then holds
\* &d.result. hist.waited marks a Wait made after Start returned.
Wait ==
    /\ Alive
    /\ UNCHANGED <<origin, callers>>
    /\ wg = 0
    /\ hist' = IF started
               THEN [hist EXCEPT !.waited = TRUE,
                                 !.waitResult = IF hist.waited THEN @ ELSE result]
               ELSE hist
    /\ UNCHANGED <<task, halt, runPc, sched, workers, files, merge, doneCalls>>

\* ------------------------------------------- segmentStatus (from the design)
\* Auto selects Sequential when the total is unknown at start, OutOfOrder
\* otherwise.
ResolveMode(mode, known) ==
    IF mode = QueueAuto
    THEN (IF known THEN QueueOutOfOrder ELSE QueueSequential)
    ELSE mode

newSegStatus(r, mode) ==
    [end |-> r.end, final |-> r.known, mode |-> ResolveMode(mode, r.known),
     cursor |-> 0, outcomes |-> [i \in Segments |-> "none"]]

\* The index the queue of worker w would hand out next: the shared ascending
\* cursor (Sequential), or the worker's own round-robin share (OutOfOrder).
QueueHead(w) == IF status.mode = QueueSequential THEN status.cursor ELSE qpos[w]

\* status.downloaded(seg, segmentResult): store the outcome of index i.
downloaded(i, res) == [status EXCEPT !.outcomes[i] = res]

\* extendTotal(newTotal): a live stream reveals more segments; only upward.
ExtendTotal ==
    /\ Alive
    /\ UNCHANGED <<origin, callers>>
    /\ runPc \in {"waitWorkers", "waitMerge"}
    /\ ~status.final
    /\ \E n \in (status.end + 1) .. MaxSegments : status' = [status EXCEPT !.end = n]
    /\ UNCHANGED <<task, halt, runPc, qpos, workers, files, merge, doneCalls, hist>>

\* The live stream ends: the total is now final.
StreamEnd ==
    /\ Alive
    /\ UNCHANGED <<origin, callers>>
    /\ runPc \in {"waitWorkers", "waitMerge"}
    /\ ~status.final
    /\ status' = [status EXCEPT !.final = TRUE]
    /\ UNCHANGED <<task, halt, runPc, qpos, workers, files, merge, doneCalls, hist>>

\* -------------------------------------------------------------------- run
\* (mutant) run records the error of newSegStatus and goes on
RunInit_KeepGoing ==
    /\ Alive
    /\ UNCHANGED <<origin, callers>>
    /\ runPc = "init"
    /\ status' = newSegStatus(origin, QueueMode)
    /\ result' = [result EXCEPT !.Error = IF origin.err THEN "init error" ELSE @,
                                !.TotalSegments = origin.end]
    /\ merge' = [merge EXCEPT !.state = "running"]
    /\ wpc' = [w \in Workers |-> IF w < Threads THEN "start" ELSE "idle"]
    /\ runPc' = "waitWorkers"
    /\ UNCHANGED <<config, Threads, wg, started, halt, qpos, seg, failCount,
                   files, doneCalls, hist>>

\* run, first part: newSegStatus; on error record it and return, otherwise
\* set TotalSegments, make the progress bar and the merge task, and launch
\* one downloadTask goroutine per thread.
RunInit ==
    /\ Alive
    /\ UNCHANGED <<origin, callers>>
    /\ runPc = "init"
    /\ LET r == origin IN
        IF r.err
        THEN /\ result' = [result EXCEPT !.Error = "init error"]
             /\ runPc' = "return"
             /\ UNCHANGED <<status, wpc, merge>>
        ELSE /\ status' = newSegStatus(r, QueueMode)
             /\ result' = [result EXCEPT !.TotalSegments = r.end]
             /\ merge' = [merge EXCEPT !.state = "running"]
             /\ wpc' = [w \in Workers |-> IF w < Threads THEN "start" ELSE "idle"]
             /\ runPc' = "waitWorkers"
    /\ UNCHANGED <<config, Threads, wg, started, halt, qpos, seg, failCount,
                   files, doneCalls, hist>>

\* (mutant) run does not wait for the workers
DownloadGroupDone_NoWait == TRUE

\* downloadGroup.Wait() has returned: every launched worker called wg.Done().
DownloadGroupDone == \A w \in Workers : wpc[w] \in {"idle", "exit"}

\* (mutant) run does not wait for the merge task
MergeTaskDone_NoWait == TRUE

\* mergeTask.wait() has returned: the merge task has stopped.
MergeTaskDone == merge.state \in {"done", "aborted"}

RunWaitWorkers ==
    /\ Alive
    /\ UNCHANGED <<origin, callers>>
    /\ runPc = "waitWorkers"
    /\ DownloadGroupDone
    /\ runPc' = "waitMerge"
    /\ UNCHANGED <<task, halt, sched, workers, files, merge, doneCalls, hist>>

\* (mutant) run forgets to copy the merge task's list into the result
RunWaitMerge_NoLost ==
    /\ Alive
    /\ UNCHANGED <<origin, callers>>
    /\ runPc = "waitMerge"
    /\ MergeTaskDone
    /\ runPc' = "return"
    /\ UNCHANGED <<task, halt, sched, workers, files, merge, doneCalls, hist>>

\* mergeTask.wait() and d.result.LostSegments = mergeTask.notMerged
RunWaitMerge ==
    /\ Alive
    /\ UNCHANGED <<origin, callers>>
    /\ runPc = "waitMerge"
    /\ MergeTaskDone
    /\ result' = [result EXCEPT !.LostSegments = merge.notMerged]
    /\ runPc' = "return"
    /\ UNCHANGED <<config, Threads, wg, started, halt, sched, workers, files,
                   merge, doneCalls, origin, hist>>

\* the deferred d.wg.Done()
RunReturn ==
    /\ Alive
    /\ UNCHANGED <<origin, callers>>
    /\ runPc = "return"
    /\ wg' = wg - 1
    /\ runPc' = "done"
    /\ UNCHANGED <<config, Threads, result, started, halt, sched, workers,
                   files, merge, doneCalls, hist>>

\* ----------------------------------------------------------- downloadTask
\* createQueue(threadNumber): the queue of worker w starts at its own share.
createQueue(w) == [qpos EXCEPT ![w] = w]

\* the queue after it handed out its head
QueueAdvance(w) ==
    IF status.mode = QueueSequential
    THEN <<[status EXCEPT !.cursor = @ + 1], qpos>>
    ELSE <<status, [qpos EXCEPT ![w] = @ + Threads]>>

\* entry of downloadTask: queue := status.createQueue(threadNumber),
\* failCount := 0, seg := -1
WorkerStart(w) ==
    /\ Alive
    /\ UNCHANGED <<origin, callers>>
    /\ wpc[w] = "start"
    /\ qpos' = createQueue(w)
    /\ seg' = [seg EXCEPT ![w] = NoSeg]
    /\ failCount' = [failCount EXCEPT ![w] = 0]
    /\ wpc' = [wpc EXCEPT ![w] = "loop"]
    /\ UNCHANGED <<task, halt, runPc, status, files, merge, doneCalls, hist>>

\* top of the loop with seg == -1: queue.NextSegment(); not ok ends the
\* worker (break, then the deferred wg.Done()). The call blocks while the
\* queue is empty and the total may still grow.
NextSegment(w) ==
    /\ Alive
    /\ UNCHANGED <<origin, callers>>
    /\ wpc[w] = "loop"
    /\ seg[w] = NoSeg
    /\ IF QueueHead(w) < status.end
       THEN /\ seg' = [seg EXCEPT ![w] = QueueHead(w)]
            /\ status' = QueueAdvance(w)[1]
            /\ qpos' = QueueAdvance(w)[2]
            /\ wpc' = [wpc EXCEPT ![w] = "loop"]
            /\ hist' = [hist EXCEPT !.handed[QueueHead(w)] = @ + 1,
                                    !.tries[w] = 0]
       ELSE /\ status.final
            /\ wpc' = [wpc EXCEPT ![w] = "exit"]
            /\ UNCHANGED <<seg, status, qpos, hist>>
    /\ UNCHANGED <<task, halt, runPc, failCount, files, merge, doneCalls>>

\* (mutant) the comparison off by one: one attempt too many
ShouldGiveUp_OffByOne(fc) == fc > FailThreshold

\* if failCount >= FailThreshold
ShouldGiveUp(fc) == fc >= FailThreshold

\* (mutant) the worker gives a segment up without recording an outcome
GiveUp_NoOutcome(w) ==
    /\ Alive
    /\ UNCHANGED <<origin, callers>>
    /\ wpc[w] = "loop"
    /\ seg[w] # NoSeg
    /\ ShouldGiveUp(failCount[w])
    /\ wpc' = [wpc EXCEPT ![w] = "report"]
    /\ UNCHANGED <<task, halt, runPc, sched, seg, failCount, files, merge,
                   doneCalls, hist>>

\* the give-up branch: status.downloaded(seg, segmentResult{ok: false})
GiveUp(w) ==
    /\ Alive
    /\ UNCHANGED <<origin, callers>>
    /\ wpc[w] = "loop"
    /\ seg[w] # NoSeg
    /\ ShouldGiveUp(failCount[w])
    /\ status' = downloaded(seg[w], "fail")
    /\ wpc' = [wpc EXCEPT ![w] = "report"]
    /\ hist' = [hist EXCEPT !.recorded[seg[w]] = @ + 1,
                            !.gaveUpAfter[seg[w]] = hist.tries[w]]
    /\ UNCHANGED <<task, halt, runPc, qpos, seg, failCount, files, merge, doneCalls>>

\* What the transport answers to the successive requests of one doRequest
\* call: some transport errors, then a response with a status code.
TransportError == -1
Errs(k) == [i \in 1 .. k |-> TransportError]
NetScripts == {Errs(k) \o <<st>> : k \in 0 .. RetryThreshold, st \in {200, 404}}

\* doRequest: up to RetryThreshold calls of Client.Do; the first response
\* without error is returned. n counts the requests made.
RECURSIVE doRequestFrom(_, _)
doRequestFrom(net, i) ==
    IF i >= RetryThreshold
    THEN [err |-> TRUE, status |-> 0, n |-> i]
    ELSE IF net[i + 1] # TransportError
    THEN [err |-> FALSE, status |-> net[i + 1], n |-> i + 1]
    ELSE doRequestFrom(net, i + 1)

\* (mutant) a transport error is not retried
doRequest_NoRetry(net) ==
    IF net[1] # TransportError
    THEN [err |-> FALSE, status |-> net[1], n |-> 1]
    ELSE [err |-> TRUE, status |-> 0, n |-> 1]

doRequest(net) == doRequestFrom(net, 0)

\* The inputs of one downloadSegment call up to the scratch file: what the
\* transport answers to the segment request, what it answers to the probe
\* request (made only after a status other than 200), and whether
\* ioutil.TempFile succeeds (called only after a status 200).
AttemptInputs ==
    {in \in [net : NetScripts, probe : NetScripts, create : BOOLEAN] :
        /\ (doRequest(in.net).err \/ doRequest(in.net).status = 200)
               => in.probe = <<200>>
        /\ (doRequest(in.net).err \/ doRequest(in.net).status # 200)
               => in.create}

\* (mutant) no probe request after a status other than 200
Fetch_NoProbe(in) ==
    LET r == doRequest(in.net) IN
    [kind |-> IF r.err THEN "transport" ELSE IF r.status # 200 THEN "status"
              ELSE IF ~in.create THEN "create" ELSE "ok",
     n |-> r.n, probes |-> 0, in |-> in]

\* downloadSegment up to the scratch file, as a function of its inputs: how
\* it ends (kind), the requests made for the segment (n) and for the probe
\* (probes). The probe goes through doRequest too, and its result is dropped.
Fetch(in) ==
    LET r == doRequest(in.net) IN
    [kind |-> IF r.err THEN "transport" ELSE IF r.status # 200 THEN "status"
              ELSE IF ~in.create THEN "create" ELSE "ok",
     n |-> r.n,
     probes |-> IF ~r.err /\ r.status # 200 THEN doRequest(in.probe).n ELSE 0,
     in |-> in]

\* what one downloadSegment call can come to, over all its inputs
FetchOutcomes == {Fetch(in) : in \in AttemptInputs}

\* the worker whose attempts are observed when hist.trace is set
Watched == 0

FetchSeen == hist.last.kind # "none"


\* the observation of an attempt of worker w that ended as f
Seen(w, f) ==
    IF hist.trace /\ w = Watched
    THEN [kind |-> f.kind, n |-> f.n, probes |-> f.probes, fc |-> failCount[w],
          in |-> f.in]
    ELSE hist.last

\* (mutant) after a failed attempt the worker drops its segment
AttemptFailed_Release(w) ==
    /\ failCount' = [failCount EXCEPT ![w] = @ + 1]
    /\ seg' = [seg EXCEPT ![w] = NoSeg]
    /\ UNCHANGED <<wpc, files, halt>>

\* return false from downloadSegment: failCount++ and the one second sleep
AttemptFailed(w) ==
    /\ failCount' = [failCount EXCEPT ![w] = @ + 1]
    /\ UNCHANGED <<wpc, seg, files, halt>>

\* (mutant) the outcome is recorded as soon as the scratch file exists,
\* before the body is copied into it
Attempt_RecordEarly(w) ==
    /\ Alive
    /\ UNCHANGED <<origin, callers>>
    /\ wpc[w] = "loop"
    /\ seg[w] # NoSeg
    /\ ~ShouldGiveUp(failCount[w])
    /\ IF Client = "nil"
       THEN /\ halt' = "panic"
            /\ hist' = [hist EXCEPT !.tries[w] = @ + 1]
            /\ UNCHANGED <<wpc, seg, files, failCount, status>>
       ELSE \E f \in FetchOutcomes :
              /\ hist' = [hist EXCEPT !.tries[w] = @ + 1,
                                      !.last = Seen(w, f)]
              /\ IF f.kind # "ok"
                 THEN AttemptFailed(w) /\ UNCHANGED status
                 ELSE /\ files' = [files EXCEPT ![seg[w]] = "open"]
                      /\ status' = downloaded(seg[w], "ok")
                      /\ wpc' = [wpc EXCEPT ![w] = "copy"]
                      /\ UNCHANGED <<seg, failCount, halt>>
    /\ UNCHANGED <<task, runPc, qpos, merge, doneCalls>>

\* downloadSegment up to the creation of the scratch file: the request
\* (task.Client.Do panics on a nil Client), the status check with its probe
\* request, and ioutil.TempFile.
Attempt(w) ==
    /\ Alive
    /\ UNCHANGED <<origin, callers>>
    /\ wpc[w] = "loop"
    /\ seg[w] # NoSeg
    /\ ~ShouldGiveUp(failCount[w])
    /\ IF Client = "nil"
       THEN /\ halt' = "panic"
            /\ hist' = [hist EXCEPT !.tries[w] = @ + 1]
            /\ UNCHANGED <<wpc, seg, files, failCount>>
       ELSE \E f \in FetchOutcomes :
              /\ hist' = [hist EXCEPT !.tries[w] = @ + 1,
                                      !.last = Seen(w, f)]
              /\ IF f.kind # "ok"
                 THEN AttemptFailed(w)
                 ELSE /\ files' = [files EXCEPT ![seg[w]] = "open"]
                      /\ wpc' = [wpc EXCEPT ![w] = "copy"]
                      /\ UNCHANGED <<seg, failCount, halt>>
    /\ UNCHANGED <<task, runPc, sched, merge, doneCalls>>

\* (mutant) the partially written scratch file is left behind
CopyFailed_NoRemove(w) ==
    /\ wpc' = [wpc EXCEPT ![w] = "loop"]
    /\ failCount' = [failCount EXCEPT ![w] = @ + 1]
    /\ hist' = [hist EXCEPT !.last.kind =
                   IF hist.trace /\ w = Watched THEN "copy" ELSE @]
    /\ UNCHANGED files

\* io.Copy returned an error: os.Remove(file.Name()), return false (and
\* failCount++ in downloadTask)
CopyFailed(w) ==
    /\ files' = [files EXCEPT ![seg[w]] = "none"]
    /\ wpc' = [wpc EXCEPT ![w] = "loop"]
    /\ failCount' = [failCount EXCEPT ![w] = @ + 1]
    /\ hist' = [hist EXCEPT !.last.kind =
                   IF hist.trace /\ w = Watched THEN "copy" ELSE @]

\* (mutant) the scratch file is not closed after the copy
Copy_NoClose(w) ==
    /\ Alive
    /\ UNCHANGED <<origin, callers>>
    /\ wpc[w] = "copy"
    /\ \E ok \in BOOLEAN :
         IF ok
         THEN /\ wpc' = [wpc EXCEPT ![w] = "closed"]
              /\ UNCHANGED <<files, failCount, hist>>
         ELSE CopyFailed(w)
    /\ UNCHANGED <<task, halt, runPc, sched, seg, merge, doneCalls>>

\* io.Copy into the scratch file: on error os.Remove and return false,
\* otherwise file.Close()
Copy(w) ==
    /\ Alive
    /\ UNCHANGED <<origin, callers>>
    /\ wpc[w] = "copy"
    /\ \E ok \in BOOLEAN :
         IF ok
         THEN /\ files' = [files EXCEPT ![seg[w]] = "closed"]
              /\ wpc' = [wpc EXCEPT ![w] = "closed"]
              /\ UNCHANGED <<failCount, hist>>
         ELSE CopyFailed(w)
    /\ UNCHANGED <<task, halt, runPc, sched, seg, merge, doneCalls>>

\* status.downloaded(segment, segmentResult{ok: true, filename}); return true
Record(w) ==
    /\ Alive
    /\ UNCHANGED <<origin, callers>>
    /\ wpc[w] = "closed"
    /\ status' = downloaded(seg[w], "ok")
    /\ wpc' = [wpc EXCEPT ![w] = "report"]
    /\ hist' = [hist EXCEPT !.recorded[seg[w]] = @ + 1]
    /\ UNCHANGED <<task, halt, runPc, qpos, seg, failCount, files, merge, doneCalls>>

\* (mutant) the worker keeps its segment after reporting it
Report_KeepSeg(w) ==
    /\ Alive
    /\ UNCHANGED <<origin, callers>>
    /\ wpc[w] = "report"
    /\ doneCalls' = [doneCalls EXCEPT ![seg[w]] = @ + 1]
    /\ failCount' = [failCount EXCEPT ![w] = 0]
    /\ wpc' = [wpc EXCEPT ![w] = "loop"]
    /\ hist' = [hist EXCEPT !.tries[w] = 0]
    /\ UNCHANGED <<task, halt, runPc, sched, seg, files, merge>>

\* done(seg); seg = -1; failCount = 0
Report(w) ==
    /\ Alive
    /\ UNCHANGED <<origin, callers>>
    /\ wpc[w] = "report"
    /\ doneCalls' = [doneCalls EXCEPT ![seg[w]] = @ + 1]
    /\ seg' = [seg EXCEPT ![w] = NoSeg]
    /\ failCount' = [failCount EXCEPT ![w] = 0]
    /\ wpc' = [wpc EXCEPT ![w] = "loop"]
    /\ hist' = [hist EXCEPT !.tries[w] = 0,
                            !.last = IF w = Watched THEN NoAttempt ELSE @]
    /\ UNCHANGED <<task, halt, runPc, sched, files, merge>>

\* ------------------------------------------------ merge task (from the design)
\* the bytes of the scratch file of segment i, as the merge task reads them
FileData(i) == IF files[i] = "closed" THEN <<i>> ELSE << >>

\* Consume the index at the frontier once it has an outcome: append and
\* delete the scratch file of a success, note a permanent failure as lost.
MergeStep ==
    /\ Alive
    /\ UNCHANGED <<origin, callers>>
    /\ merge.state = "running"
    /\ merge.frontier < status.end
    /\ status.outcomes[merge.frontier] # "none"
    /\ IF status.outcomes[merge.frontier] = "ok"
       THEN /\ merge' = [merge EXCEPT !.output = @ \o FileData(merge.frontier),
                                      !.frontier = @ + 1]
            /\ files' = [files EXCEPT ![merge.frontier] = "deleted"]
       ELSE /\ merge' = [merge EXCEPT !.notMerged = Append(@, merge.frontier),
                                      !.frontier = @ + 1]
            /\ UNCHANGED files
    /\ UNCHANGED <<task, halt, runPc, sched, workers, doneCalls, hist>>

\* An I/O error while appending to the output or deleting the scratch
\* file: the merge task stops.
MergeIOError ==
    /\ Alive
    /\ UNCHANGED <<origin, callers>>
    /\ merge.state = "running"
    /\ merge.frontier < status.end
    /\ status.outcomes[merge.frontier] = "ok"
    /\ \E appended \in BOOLEAN :
         merge' = [merge EXCEPT !.state = "aborted",
                                !.output = IF appended
                                           THEN @ \o FileData(merge.frontier)
                                           ELSE @]
    /\ hist' = [hist EXCEPT !.mergeIOError = TRUE]
    /\ UNCHANGED <<task, halt, runPc, sched, workers, files, doneCalls>>

\* the frontier reached the final total
MergeFinish ==
    /\ Alive
    /\ UNCHANGED <<origin, callers>>
    /\ merge.state = "running"
    /\ status.final
    /\ merge.frontier = status.end
    /\ merge' = [merge EXCEPT !.state = "done"]
    /\ UNCHANGED <<task, halt, runPc, sched, workers, files, doneCalls, hist>>

\* ------------------------------------------------------------- properties
\* the elements of the set S of indices, as an ascending sequence
Ascending(S) == SelectSeq([k \in 1 .. MaxSegments |-> k - 1], LAMBDA i : i \in S)

Range(q) == {q[k] : k \in 1 .. Len(q)}

Known == 0 .. (status.end - 1)
Succeeded == {i \in Known : status.outcomes[i] = "ok"}
Lost == {i \in Known : status.outcomes[i] = "fail"}

\* C1: once the merge task has terminated, the output file is the ascending
\* concatenation of the scratch contents of the segments whose outcome is
\* Success, the permanently failed indices are absent, and the frontier never
\* passes an index that has no outcome yet.
C1_OutputIsAscendingConcat ==
    /\ \A i \in Segments : i < merge.frontier => status.outcomes[i] # "none"
    /\ merge.frontier <= status.end
    /\ merge.state = "done" =>
          /\ merge.output = Ascending(Succeeded)
          /\ Range(merge.output) \cap Lost = {}
          /\ \A i \in Known : status.outcomes[i] # "none"

\* C1 witness: two workers, segment 0 lost, segment 1 merged, merge terminated
C1_Witness ==
    /\ merge.state = "done"
    /\ Threads = 2
    /\ status.outcomes = [i \in Segments |-> IF i = 0 THEN "fail" ELSE "ok"]
    /\ merge.output = <<1>>

\* the workers that are between being handed an index and its outcome
Holding(w) == wpc[w] \in {"loop", "copy", "closed"} /\ seg[w] # NoSeg

\* C2: no index is held by two workers, no index is handed out twice, an
\* index a worker still works on has no outcome yet, and no index is
\* recorded by status.downloaded twice.
C2_NoDoubleDispense ==
    /\ \A v, w \in Workers : (v # w /\ seg[v] # NoSeg) => seg[v] # seg[w]
    /\ \A i \in Segments : hist.handed[i] <= 1
    /\ \A w \in Workers : Holding(w) => status.outcomes[seg[w]] = "none"
    /\ \A i \in Segments : hist.recorded[i] <= 1

\* C2 witness: both workers hold an index at once, on the shared cursor
C2_Witness ==
    /\ status.mode = QueueSequential
    /\ Holding(0) /\ Holding(1)
    /\ failCount[0] > 0 /\ failCount[1] > 0

\* C3 (as claimed): when Wait returns after a run that merged everything,
\* TotalSegments is the final total of the stream.
C3_TotalIsFinal ==
    (hist.waited /\ merge.state = "done") => result.TotalSegments = status.end

\* C4: a Wait made after Start returns only when run is over: every worker
\* loop has exited, the merge task has stopped, LostSegments is the merge
\* task's final list, and the result is what it was when Wait returned.
C4_WaitAfterRunComplete ==
    hist.waited =>
        /\ runPc = "done"
        /\ \A w \in Workers : wpc[w] \in {"idle", "exit"}
        /\ merge.state \in {"idle", "done", "aborted"}
        /\ merge.state = "idle" => result.Error # ""
        /\ merge.state # "idle" => result.LostSegments = merge.notMerged
        /\ result = hist.waitResult

\* C4 witness: Wait has returned a result that lists a lost segment
C4_Witness ==
    /\ hist.waited
    /\ Threads = 2
    /\ result.LostSegments = <<1>>
    /\ merge.output = <<0>>

\* C5: a Start on a task whose Start has already returned changes nothing:
\* no field of the task, not the wait group, no goroutine; one run per task.
C5_SecondStartNoOp ==
    /\ [][(started /\ hist'.starts = hist.starts + 1) =>
             /\ UNCHANGED <<task, halt, runPc, sched, workers, files, merge,
                            doneCalls, origin>>
             /\ hist'.runs = hist.runs]_vars
    /\ [](hist.runs <= 1 /\ wg <= 1)

\* C5 witness: the second Start was made while the run was in progress
C5_Witness ==
    /\ hist.noop >= 1
    /\ hist.runs = 1
    /\ runPc = "waitWorkers"
    /\ \E w \in Workers : Holding(w)

FatalMessages == {"Empty URL", "Empty MergeFile", "Empty SegmentDir"}

\* nothing was launched and nothing but Threads was touched
NothingLaunched ==
    /\ hist.runs = 0 /\ runPc = "none" /\ wg = 0 /\ ~started
    /\ \A w \in Workers : wpc[w] = "idle"
    /\ merge.state = "idle"
    /\ result = ZeroResult

\* C6 (as claimed): after Start on a task with a thread count below 1, an
\* empty URL or an empty output path, the process has ended in a fatal
\* configuration error, nothing was launched and no field was changed.
C6_InvalidConfigFatal ==
    (hist.starts >= 1
        /\ (hist.cfg0.Threads < 1 \/ hist.cfg0.Url = "" \/ hist.cfg0.MergeFile = ""))
    => (halt \in FatalMessages /\ NothingLaunched /\ Fields = hist.cfg0)

\* C6 (amended): an empty URL, MergeFile or SegmentDir is fatal before
\* anything is launched, and only Threads may have changed (raised to 1); a
\* thread count below 1 alone is no error: it is raised to 1 and run starts.
C6_EmptyFieldFatal ==
    hist.starts >= 1 =>
        /\ Threads = (IF hist.cfg0.Threads < 1 THEN 1 ELSE hist.cfg0.Threads)
        /\ [Fields EXCEPT !.Threads = hist.cfg0.Threads] = hist.cfg0
        /\ IF hist.cfg0.Url = "" \/ hist.cfg0.MergeFile = "" \/ hist.cfg0.SegmentDir = ""
           THEN halt \in FatalMessages /\ NothingLaunched
           ELSE halt \notin FatalMessages /\ hist.runs = 1 /\ started

\* C6 witness: Start ended fatally on an empty MergeFile, Threads raised
C6_Witness ==
    /\ hist.starts = 1
    /\ halt = "Empty MergeFile"
    /\ hist.cfg0.Threads = 0
    /\ Threads = 1

\* C7: a permanently failed segment ends neither the process nor the run
\* with an error: when the run is over and the merge task terminated, Error
\* is empty, LostSegments lists exactly the failed indices and every other
\* index was fetched and is in the output.
C7_LostSegmentNotFatal ==
    /\ (\E i \in Segments : status.outcomes[i] = "fail") => halt = ""
    /\ (runPc = "done" /\ merge.state = "done") =>
          /\ result.Error = ""
          /\ result.LostSegments = Ascending(Lost)
          /\ merge.output = Ascending(Known \ Lost)
          /\ \A i \in Known \ Lost : hist.recorded[i] = 1 /\ files[i] = "deleted"

\* C7 witness: segment 0 failed FailThreshold times, segment 1 was merged
C7_Witness ==
    /\ runPc = "done"
    /\ merge.state = "done"
    /\ result = [Error |-> "", LostSegments |-> <<0>>, TotalSegments |-> 2]
    /\ hist.gaveUpAfter[0] = FailThreshold
    /\ merge.output = <<1>>

C9_ExactlyThresholdAttempts ==
    /\ \A w \in Workers : hist.tries[w] <= FailThreshold
    /\ \A w \in Workers :
          (Alive /\ wpc[w] = "loop" /\ seg[w] # NoSeg) =>
              /\ failCount[w] = hist.tries[w]
              /\ ShouldGiveUp(failCount[w]) <=> (hist.tries[w] = FailThreshold)
    /\ \A i \in Segments :
          status.outcomes[i] = "fail" => hist.gaveUpAfter[i] = FailThreshold

\* C9 witness: one worker first saved segment 0, then gave up
\* segment 1 after FailThreshold failed attempts
C9_Witness ==
    /\ Threads = 1
    /\ status.outcomes = [i \in Segments |-> IF i = 0 THEN "ok" ELSE "fail"]
    /\ hist.gaveUpAfter[1] = FailThreshold
    /\ failCount[0] = FailThreshold
    /\ wpc[0] = "report"

\* every index of the stream has its outcome, the workers and the merge
\* task are through, and Wait has returned
AllDone ==
    /\ \A i \in Known : status.outcomes[i] # "none"
    /\ \A w \in Workers : wpc[w] \in {"idle", "exit"}
    /\ merge.state = "done"
    /\ merge.frontier = status.end
    /\ hist.waited

\* an index that was handed out and has no outcome is held by a worker
\* that is still in its loop
NoWorkerLeavesIndex ==
    \A i \in Segments :
        (hist.handed[i] > 0 /\ status.outcomes[i] = "none") =>
            \E w \in Workers : seg[w] = i /\ wpc[w] # "exit"

\* C10 (as claimed): with a known total and fair scheduling, a run that
\* launched its workers ends with every index terminal, every worker out of
\* its loop, the merge task terminated at the total and Wait returned; no
\* worker leaves an index behind.
C10_EventuallyAllDone ==
    /\ (runPc = "waitWorkers") ~> AllDone
    /\ []NoWorkerLeavesIndex

\* The same, for the tasks that have a Client.
C10_AllDoneWithClient ==
    /\ (runPc = "waitWorkers" /\ Client # "nil") ~> AllDone
    /\ []NoWorkerLeavesIndex

\* ------------------------------------------- properties of single attempts
\* the worker observed is back at the head of its loop after the attempt
BackInLoop == hist.last.kind # "none" /\ wpc[Watched] = "loop"

\* C11: an attempt whose first RetryThreshold - 1 requests end in a
\* transport error and whose next request is answered with status 200 is one
\* successful request (RetryThreshold requests made); with the scratch file
\* written the failure counter is what it was before the attempt and the
\* segment is recorded as a success.
C11_TwoErrorsThenSuccess ==
    LET L == hist.last IN
    (L.kind # "none" /\ L.in.net = Errs(RetryThreshold - 1) \o <<200>>
                     /\ L.in.create) =>
        /\ L.kind \in {"ok", "copy"}
        /\ L.n = RetryThreshold
        /\ L.kind = "ok" =>
              /\ failCount[Watched] = L.fc
              /\ hist.tries[Watched] = L.fc + 1
              /\ wpc[Watched] \in {"copy", "closed", "report"}
              /\ wpc[Watched] = "report" =>
                    /\ status.outcomes[seg[Watched]] = "ok"
                    /\ hist.recorded[seg[Watched]] = 1

\* C11 witness: after two failed attempts, an attempt with two transport
\* errors and then status 200 has been recorded as a success, the counter
\* still at two
C11_Witness ==
    /\ hist.last.kind = "ok"
    /\ hist.last.in.net = <<TransportError, TransportError, 200>>
    /\ hist.last.fc = 2
    /\ failCount[Watched] = 2
    /\ wpc[Watched] = "report"
    /\ status.outcomes[seg[Watched]] = "ok"

\* C12 (as claimed): an attempt fails on transport errors only after the
\* initial request and RetryThreshold retries, RetryThreshold + 1 requests
\* in all, and raises the failure counter by one.
C12_InitialPlusThreeRetries ==
    (BackInLoop /\ hist.last.kind = "transport") =>
        /\ hist.last.n = RetryThreshold + 1
        /\ failCount[Watched] = hist.last.fc + 1

\* What doRequest does: the attempt fails on transport errors exactly when
\* the first RetryThreshold requests (the initial one and RetryThreshold - 1
\* retries) all ended in a transport error; the counter goes up by one.
C12_ThreeRequestsInAll ==
    LET L == hist.last IN
    BackInLoop =>
        /\ L.kind = "transport" <=> Len(L.in.net) > RetryThreshold
        /\ L.kind = "transport" =>
              /\ L.n = RetryThreshold
              /\ failCount[Watched] = L.fc + 1

\* --------------------------------------------- properties of the worker loop
\* C13: a worker that holds an index without outcome keeps it through every
\* step (after a failed attempt too), takes a new index only when it holds
\* none, and an index handed out and not yet terminal is held by exactly one
\* worker: it is never released to the others.
C13_HoldsUntilOutcome ==
    /\ [][\A w \in Workers :
            /\ (seg[w] # NoSeg /\ status.outcomes[seg[w]] = "none")
                   => seg'[w] = seg[w]
            /\ (seg'[w] # seg[w] /\ seg'[w] # NoSeg) => seg[w] = NoSeg]_vars
    /\ [](\A i \in Segments :
            (hist.handed[i] > 0 /\ status.outcomes[i] = "none") =>
                /\ Cardinality({w \in Workers : seg[w] = i}) = 1
                /\ hist.handed[i] = 1)

\* C13 witness: worker 0 still holds index 0 after FailThreshold - 1 failed
\* attempts while worker 1 has finished index 1 and left its loop
C13_Witness ==
    /\ seg[0] = 0
    /\ failCount[0] = FailThreshold - 1
    /\ status.outcomes[0] = "none"
    /\ status.outcomes[1] = "ok"
    /\ wpc[1] = "exit"

\* C14: an index gets at most one outcome and at most one progress update,
\* an outcome once recorded never changes, the progress update comes after
\* the outcome, and an index that was handed out and is held by no worker
\* any more has exactly one outcome and exactly one progress update.
C14_OneOutcomeOneUpdate ==
    /\ [](\A i \in Segments :
            /\ hist.recorded[i] <= 1
            /\ doneCalls[i] <= hist.recorded[i]
            /\ hist.recorded[i] <= hist.handed[i]
            /\ hist.recorded[i] = 1 <=> status.outcomes[i] # "none"
            /\ (Alive /\ hist.handed[i] > 0 /\ \A w \in Workers : seg[w] # i) =>
                  hist.recorded[i] = 1 /\ doneCalls[i] = 1)
    /\ [][\A i \in Segments :
            status.outcomes[i] # "none" =>
                status'.outcomes[i] = status.outcomes[i]]_vars

\* C14 witness: one index succeeded, one was given up, both reported once
C14_Witness ==
    /\ status.outcomes = [i \in Segments |-> IF i = 0 THEN "ok" ELSE "fail"]
    /\ doneCalls = [i \in Segments |-> 1]
    /\ \A w \in Workers : seg[w] = NoSeg

\* C15: a segment recorded as a success has a scratch file that was written
\* and closed; a scratch file still open belongs to a segment without
\* outcome, held by a worker in its copy; what the merge task consumed of
\* the successes is in the output in full.
C15_ClosedBeforeRecorded ==
    \A i \in Segments :
        /\ status.outcomes[i] = "ok" => files[i] \in {"closed", "deleted"}
        /\ files[i] = "open" =>
              /\ status.outcomes[i] = "none"
              /\ \E w \in Workers : seg[w] = i /\ wpc[w] = "copy"
        /\ (i < merge.frontier /\ status.outcomes[i] = "ok") =>
              /\ files[i] = "deleted"
              /\ i \in Range(merge.output)

\* C15 witness: the merge task has consumed segment 0 while the scratch
\* file of segment 1 is still being written
C15_Witness ==
    /\ merge.output = <<0>>
    /\ files[0] = "deleted"
    /\ files[1] = "open"
    /\ merge.state = "running"

\* C16: after an attempt whose copy into the scratch file failed, the
\* worker is back in its loop with the same segment, the failure counter
\* one higher, no outcome recorded and no scratch file left.
C16_CopyFailureCleansUp ==
    (BackInLoop /\ hist.last.kind = "copy") =>
        /\ seg[Watched] # NoSeg
        /\ failCount[Watched] = hist.last.fc + 1
        /\ hist.tries[Watched] = failCount[Watched]
        /\ files[seg[Watched]] = "none"
        /\ status.outcomes[seg[Watched]] = "none"
        /\ hist.recorded[seg[Watched]] = 0
        /\ doneCalls[seg[Watched]] = 0

\* C16 witness: the copy failed in the attempt that brought the counter to
\* FailThreshold
C16_Witness ==
    /\ BackInLoop
    /\ hist.last.kind = "copy"
    /\ hist.last.fc = FailThreshold - 1
    /\ failCount[Watched] = FailThreshold

\* the segment request of the last attempt was answered, with a status
\* other than 200
StatusFailure ==
    /\ BackInLoop
    /\ Len(hist.last.in.net) <= RetryThreshold
    /\ hist.last.in.net[Len(hist.last.in.net)] # 200

\* after a failed attempt: counter one higher, no scratch file, no outcome
FailedClean ==
    /\ failCount[Watched] = hist.last.fc + 1
    /\ files[seg[Watched]] = "none"
    /\ status.outcomes[seg[Watched]] = "none"

\* C17 (as claimed): after a status other than 200 the attempt has failed
\* whatever the probe returned, without scratch file or outcome, and exactly
\* one probe request was issued.
C17_ExactlyOneProbe ==
    StatusFailure =>
        /\ hist.last.kind = "status"
        /\ FailedClean
        /\ hist.last.probes = 1

\* C17 (amended): after a status other than 200 the attempt has failed
\* whatever the probe returned, without scratch file or outcome; the probe
\* goes through doRequest, so one request is issued per transport error of
\* the probe plus one, RetryThreshold at most.
C17_ProbeThroughDoRequest ==
    StatusFailure =>
        /\ hist.last.kind = "status"
        /\ FailedClean
        /\ hist.last.probes = IF Len(hist.last.in.probe) <= RetryThreshold
                              THEN Len(hist.last.in.probe)
                              ELSE RetryThreshold
        /\ hist.last.probes \in 1 .. RetryThreshold

\* C17 witness: status 404 after one transport error, and a probe that met
\* nothing but transport errors
C17_Witness ==
    /\ StatusFailure
    /\ hist.last.in.net = <<TransportError, 404>>
    /\ Len(hist.last.in.probe) > RetryThreshold
    /\ hist.last.probes = RetryThreshold

\* ------------------------------------------------- properties of run, again
\* C19: when newSegStatus fails, run records the error, leaves TotalSegments
\* at 0 and LostSegments empty, launches no worker and no merge task, and
\* calls wg.Done(): Wait can return, and returns that result.
C19_InitErrorEndsRun ==
    (origin.err /\ runPc \in {"return", "done"}) =>
        /\ result = [ZeroResult EXCEPT !.Error = "init error"]
        /\ \A w \in Workers : wpc[w] = "idle"
        /\ merge.state = "idle"
        /\ runPc = "done" => wg = 0
        /\ hist.waited => hist.waitResult = result

\* C19 witness: Wait has returned the result of a run whose newSegStatus
\* failed
C19_Witness ==
    /\ origin.err
    /\ hist.waited
    /\ runPc = "done"
    /\ result.Error = "init error"

\* C20 (as claimed): a run of a task without Client never crashes.
C20_NoCrashWithoutClient == Client = "nil" => halt # "panic"

\* C18 (as claimed): however the Start calls on one task interleave, at
\* most one run is launched and wg.Add is called at most once.
C18_OneRunOneAdd == hist.runs <= 1 /\ wg <= 1

Worker(w) ==
    \/ WorkerStart(w) \/ NextSegment(w) \/ GiveUp(w) \/ Attempt(w)
    \/ Copy(w) \/ Record(w) \/ Report(w)

Next ==
    \/ Start \/ Wait
    \/ RunInit \/ RunWaitWorkers \/ RunWaitMerge \/ RunReturn
    \/ ExtendTotal \/ StreamEnd
    \/ \E w \in Workers : Worker(w)
    \/ MergeStep \/ MergeIOError \/ MergeFinish

Spec == Init /\ [][Next]_vars

SpecRestart == InitRestart /\ [][Next]_vars

\* A stream whose total is known when the scheduler is made, no I/O error
\* in the merge task, and the scheduling of the Go runtime: a goroutine
\* that can take a step eventually takes one, and the caller calls Wait.
InitKnown == Init /\ origin.known /\ ~origin.err

NextKnown ==
    \/ Start \/ Wait
    \/ RunInit \/ RunWaitWorkers \/ RunWaitMerge \/ RunReturn
    \/ \E w \in Workers : Worker(w)
    \/ MergeStep \/ MergeFinish

Fairness ==
    /\ WF_vars(Wait)
    /\ WF_vars(RunInit \/ RunWaitWorkers \/ RunWaitMerge \/ RunReturn)
    /\ \A w \in Workers : WF_vars(Worker(w))
    /\ WF_vars(MergeStep \/ MergeFinish)

FairSpec == InitKnown /\ [][NextKnown]_vars /\ Fairness

\* A stream of known length, with the attempts of one worker observed.
InitFetch == InitWith(1, TRUE) /\ origin.known /\ ~origin.err

SpecFetch == InitFetch /\ [][NextKnown]_vars
\* Start called by MaxStarts goroutines at once, on a stream of known length.
InitRace == InitKnown

NextRace ==
    \/ \E c \in Callers : StartStep(c)
    \/ Wait
    \/ RunInit \/ RunWaitWorkers \/ RunWaitMerge \/ RunReturn
    \/ \E w \in Workers : Worker(w)
    \/ MergeStep \/ MergeFinish

SpecRace == InitRace /\ [][NextRace]_vars
====
